---- MODULE Spec2Model ----
(***************************************************************************)
(* Model of aas_chair_selection.py: select_chair over a pandas DataFrame.  *)
(*                                                                         *)
(* A Python string is a sequence of one-character strings, so that         *)
(* concatenation ("+" on two object cells) and iteration over a string     *)
(* (for a in area2[1:] when area2 is a str) are what Python does.          *)
(* A DataFrame is a function from its row labels (the index) to rows; a    *)
(* row is a record of the six columns select_chair reads.  A boolean       *)
(* Series is a function from row labels to BOOLEAN.                        *)
(*                                                                         *)
(* select_chair reads its columns from the name f (lines 73-79), which is  *)
(* neither a parameter nor a local: Python resolves it in the module's     *)
(* global namespace.  The module itself never binds f, so under main()     *)
(* every call raises NameError at line 73.  The body of the function runs  *)
(* only when the importing session has bound f; the model covers both the  *)
(* module as shipped (globals = {}) and the session in which f names the   *)
(* roster that is passed as df (globals = {"f"}).                          *)
(***************************************************************************)
EXTENDS Integers, Sequences, FiniteSets, TLC

VARIABLES
    globals,          \* names bound in the module's global namespace besides its defs
    f,                \* the DataFrame the global f names (meaningful iff "f" \in globals)
    df,               \* parameter df: the roster, as read_data returns it
    area1,            \* parameter area1
    area2,            \* parameter area2 (None when omitted)
    area3,            \* parameter area3 (None when omitted)
    date,             \* parameter date
    start_time,       \* parameter start_time
    end_time,         \* parameter end_time
    mode,             \* parameter mode
    pc,               \* position in select_chair
    df_selected,      \* local: result of the primary filter
    df_selected_new,  \* local: result of the secondary filter
    df_selected_all,  \* local: result of the tertiary filter, then of the exclusion
    returned,         \* the value select_chair returned
    raised            \* the exception select_chair raised, or NoError

vars == <<globals, f, df, area1, area2, area3, date, start_time, end_time, mode,
          pc, df_selected, df_selected_new, df_selected_all, returned, raised>>

-----------------------------------------------------------------------------
(* Bounds of the model *)

MaxRows == 3
MaxLen == 2

(* df.index += 2.0 *)
IndexOffset == 2

-----------------------------------------------------------------------------
(* Values *)

NaN == <<"NaN">>

NoError == "none"
NameError == "NameError: name 'f' is not defined"
LengthError == "ValueError: Lengths must match to compare"
SubscriptError == "TypeError: 'NoneType' object is not subscriptable"
ChoiceError == "ValueError: 'a' cannot be empty unless no samples are taken"
KeyError == "KeyError"

Columns == {"area_of_expertise_1", "area_of_expertise_2", "area_of_expertise_3",
            "session_date", "session_start", "session_end"}

Row(a1, a2, a3, d, s, e) ==
    [area_of_expertise_1 |-> a1, area_of_expertise_2 |-> a2,
     area_of_expertise_3 |-> a3, session_date |-> d,
     session_start |-> s, session_end |-> e]

EmptyFrame == <<>>

(* A query argument: a str, a list of str, or None. *)
Str(s) == [tag |-> "str", val |-> s]
List(l) == [tag |-> "list", val |-> l]
None == [tag |-> "none", val |-> <<>>]

(* np.size(x): 1 for a str, the number of elements for a list *)
Size(x) == IF x.tag = "list" THEN Len(x.val) ELSE 1

(* pd.read_csv(filename) followed by df.index += 2.0: the k-th data row of *)
(* the file (k = 0, 1, ...) gets the label k + 2.                          *)
read_data(csv) ==
    [i \in {k - 1 + IndexOffset : k \in 1..Len(csv)} |-> csv[i + 1 - IndexOffset]]

-----------------------------------------------------------------------------
(* pandas operations used by select_chair *)

(* Elementwise "+" of two cells of object dtype: two strings concatenate;  *)
(* a cell that is missing on either side gives NaN.                        *)
CellAdd(x, y) == IF x = NaN \/ y = NaN THEN NaN ELSE x \o y

RowAdd(r, q) ==
    Row(CellAdd(r.area_of_expertise_1, q.area_of_expertise_1),
        CellAdd(r.area_of_expertise_2, q.area_of_expertise_2),
        CellAdd(r.area_of_expertise_3, q.area_of_expertise_3),
        CellAdd(r.session_date, q.session_date),
        CellAdd(r.session_start, q.session_start),
        CellAdd(r.session_end, q.session_end))

(* A row label present on one side of "+" only: every cell is NaN. *)
BlankRow == Row(NaN, NaN, NaN, NaN, NaN, NaN)

(* left + right on DataFrames: both sides are aligned on the union of the  *)
(* row labels, a label missing on one side is filled with NaN, and the     *)
(* cells are added elementwise.                                            *)
FrameAdd(left, right) ==
    [i \in DOMAIN left \cup DOMAIN right |->
        IF i \in DOMAIN left /\ i \in DOMAIN right
        THEN RowAdd(left[i], right[i])
        ELSE BlankRow]

(* self += other on DataFrames: op(self, other), then reindexed like self. *)
FrameIAdd(self, other) ==
    [i \in DOMAIN self |-> FrameAdd(self, other)[i]]

(* Restrict with the boolean key applied by position instead of being     *)
(* aligned on the row labels (what a bare boolean array would do).         *)
RestrictByPosition(frame, mask) ==
    LET Pos(S, i) == Cardinality({j \in S : j < i})
        AtPos(S, n) == CHOOSE j \in S : Pos(S, j) = n
    IN [i \in {j \in DOMAIN frame : mask[AtPos(DOMAIN mask, Pos(DOMAIN frame, j))]}
            |-> frame[i]]

(* frame[mask] with a boolean Series: the mask is aligned on the frame's   *)
(* row labels and the rows where it is True are kept, cells unchanged.     *)
Restrict(frame, mask) ==
    [i \in {j \in DOMAIN frame : mask[j]} |-> frame[i]]

(* ColumnEquals with the value matched as a prefix of the cell              *)
(* (str.startswith) instead of by equality.                                *)
ColumnStartsWith(col, v) ==
    [i \in DOMAIN f |->
        /\ Len(f[i][col]) >= Len(v)
        /\ SubSeq(f[i][col], 1, Len(v)) = v]

(* f[col] == v for a str v: exact equality, row by row.                    *)
ColumnEquals(col, v) ==
    [i \in DOMAIN f |-> f[i][col] = v]

(* The key compared with the column in the np.size(area) == 1 branch: a    *)
(* str is compared with every cell; a one-element list is compared         *)
(* elementwise and must have the length of the column.                     *)
CompareRaises(area) ==
    area.tag = "list" /\ Len(area.val) # Cardinality(DOMAIN f)

ColumnEqualsArg(col, area) ==
    IF area.tag = "list" THEN ColumnEquals(col, area.val[1])
    ELSE ColumnEquals(col, area.val)

(* x[1:] iterated: the elements after the first of a list, the characters  *)
(* after the first of a str (each a one-character str).                    *)
Rest(x) ==
    IF x.tag = "str" THEN [k \in 1..(Len(x.val) - 1) |-> <<x.val[k + 1]>>]
    ELSE Tail(x.val)

(* for a in vals: acc += acc[f[col] == a]          (lines 86-87)           *)
RECURSIVE AccumulateSelf(_, _, _)
AccumulateSelf(acc, col, vals) ==
    IF vals = <<>> THEN acc
    ELSE AccumulateSelf(FrameIAdd(acc, Restrict(acc, ColumnEquals(col, Head(vals)))),
                        col, Tail(vals))

(* for a in vals: acc += base[f[col] == a]         (lines 95-96, 106-107)  *)
RECURSIVE Accumulate(_, _, _, _)
Accumulate(acc, base, col, vals) ==
    IF vals = <<>> THEN acc
    ELSE Accumulate(FrameIAdd(acc, Restrict(base, ColumnEquals(col, Head(vals)))),
                    base, col, Tail(vals))

-----------------------------------------------------------------------------
(* select_chair, one action per step of the function *)

Locals == <<df_selected, df_selected_new, df_selected_all>>
Call == <<globals, f, df, area1, area2, area3, date, start_time, end_time, mode>>

Raise(e) ==
    /\ raised' = e
    /\ pc' = "done"
    /\ UNCHANGED returned

(* Lines 73-79: the six columns are read from the global f. *)
BindColumns ==
    /\ pc = "bind"
    /\ IF "f" \in globals
       THEN pc' = "primary" /\ UNCHANGED <<raised, returned>>
       ELSE Raise(NameError)
    /\ UNCHANGED <<Call, Locals>>

(* Lines 82-87: the primary-expertise filter. *)
PrimaryFilter ==
    /\ pc = "primary"
    /\ IF Size(area1) = 1
       THEN IF CompareRaises(area1)
            THEN Raise(LengthError) /\ UNCHANGED df_selected
            ELSE /\ df_selected' =
                        Restrict(df, ColumnEqualsArg("area_of_expertise_1", area1))
                 /\ pc' = "secondary"
                 /\ UNCHANGED <<raised, returned>>
       ELSE /\ df_selected' =
                   AccumulateSelf(
                       Restrict(df, ColumnEquals("area_of_expertise_1", area1.val[1])),
                       "area_of_expertise_1", Tail(area1.val))
            /\ pc' = "secondary"
            /\ UNCHANGED <<raised, returned>>
    /\ UNCHANGED <<Call, df_selected_new, df_selected_all>>

(* Lines 89-98: the secondary-expertise filter. *)
SecondaryFilter ==
    /\ pc = "secondary"
    /\ IF area2.tag # "none"
       THEN IF Size(area2) = 1
            THEN IF CompareRaises(area2)
                 THEN Raise(LengthError) /\ UNCHANGED df_selected_new
                 ELSE /\ df_selected_new' =
                             Restrict(df_selected,
                                      ColumnEqualsArg("area_of_expertise_2", area2))
                      /\ pc' = "tertiary"
                      /\ UNCHANGED <<raised, returned>>
            ELSE /\ df_selected_new' =
                        Accumulate(
                            Restrict(df_selected,
                                     ColumnEquals("area_of_expertise_2", area2.val[1])),
                            df_selected, "area_of_expertise_2", Tail(area2.val))
                 /\ pc' = "tertiary"
                 /\ UNCHANGED <<raised, returned>>
       ELSE /\ df_selected_new' = df_selected
            /\ pc' = "tertiary"
            /\ UNCHANGED <<raised, returned>>
    /\ UNCHANGED <<Call, df_selected, df_selected_all>>

(* Lines 100-109: the tertiary-expertise filter.  The loop of lines        *)
(* 106-107 iterates over area2[1:], which raises when area2 is None.       *)
TertiaryFilter ==
    /\ pc = "tertiary"
    /\ IF area3.tag # "none"
       THEN IF Size(area3) = 1
            THEN IF CompareRaises(area3)
                 THEN Raise(LengthError) /\ UNCHANGED df_selected_all
                 ELSE /\ df_selected_all' =
                             Restrict(df_selected_new,
                                      ColumnEqualsArg("area_of_expertise_3", area3))
                      /\ pc' = "exclude"
                      /\ UNCHANGED <<raised, returned>>
            ELSE IF area2.tag = "none"
                 THEN /\ df_selected_all' =
                             Restrict(df_selected_new,
                                      ColumnEquals("area_of_expertise_3", area3.val[1]))
                      /\ Raise(SubscriptError)
                 ELSE /\ df_selected_all' =
                             Accumulate(
                                 Restrict(df_selected_new,
                                          ColumnEquals("area_of_expertise_3",
                                                       area3.val[1])),
                                 df_selected_new, "area_of_expertise_3", Rest(area2))
                      /\ pc' = "exclude"
                      /\ UNCHANGED <<raised, returned>>
       ELSE /\ df_selected_all' = df_selected_new
            /\ pc' = "exclude"
            /\ UNCHANGED <<raised, returned>>
    /\ UNCHANGED <<Call, df_selected, df_selected_new>>

(* session_date != date                                       (line 113)   *)
OffDateMask ==
    [i \in DOMAIN f |-> f[i].session_date # date]

(* OnDateMask with the two time tests joined by "or": a row on the date is *)
(* kept unless both its start and its end are the excluded ones.           *)
OnDateMaskEitherTime ==
    [i \in DOMAIN f |->
        /\ f[i].session_date = date
        /\ (f[i].session_start # start_time \/ f[i].session_end # end_time)]

(* (session_date == date) & (session_start != start_time) &                *)
(* (session_end != end_time)                                  (lines 114-116) *)
OnDateMask ==
    [i \in DOMAIN f |->
        /\ f[i].session_date = date
        /\ f[i].session_start # start_time
        /\ f[i].session_end # end_time]

(* Lines 113-118 as a function of the frame they are applied to:           *)
(* df_off_date + df_on_date.                                               *)
Exclusion(frame) ==
    FrameAdd(Restrict(frame, OffDateMask), Restrict(frame, OnDateMask))

(* Lines 113-118: the schedule-conflict exclusion. *)
ScheduleExclusion ==
    /\ pc = "exclude"
    /\ df_selected_all' = Exclusion(df_selected_all)
    /\ pc' = "output"
    /\ UNCHANGED <<Call, df_selected, df_selected_new, raised, returned>>

(* ChoicePool drawing from the labels of the whole roster. *)
ChoicePoolRoster(frame) == DOMAIN df

(* np.array(frame.index): the labels np.random.choice draws from. *)
ChoicePool(frame) == DOMAIN frame

(* frame.loc[i]: the row labelled i, or KeyError. *)
Loc(frame, i) ==
    IF i \in DOMAIN frame
    THEN [returned |-> [j \in {i} |-> frame[j]], raised |-> NoError]
    ELSE [returned |-> EmptyFrame, raised |-> KeyError]

(* Sample returning the empty frame when there is no label to draw. *)
SampleOrEmpty(frame) ==
    IF ChoicePool(frame) = {}
    THEN {[returned |-> EmptyFrame, raised |-> NoError]}
    ELSE {Loc(frame, i) : i \in ChoicePool(frame)}

(* frame.loc[np.random.choice(np.array(frame.index))]: every outcome the   *)
(* draw can have; np.random.choice raises on an empty array.               *)
Sample(frame) ==
    IF ChoicePool(frame) = {}
    THEN {[returned |-> EmptyFrame, raised |-> ChoiceError]}
    ELSE {Loc(frame, i) : i \in ChoicePool(frame)}

(* Lines 120-124: the output.  (A mode other than "all" and "random" falls *)
(* off the end of the function; the calls modelled pass one of the two.)   *)
Output ==
    /\ pc = "output"
    /\ IF mode = "all"
       THEN returned' = df_selected_all /\ raised' = NoError
       ELSE \E o \in Sample(df_selected_all) :
                returned' = o.returned /\ raised' = o.raised
    /\ pc' = "done"
    /\ UNCHANGED <<Call, Locals>>

Next ==
    \/ BindColumns
    \/ PrimaryFilter
    \/ SecondaryFilter
    \/ TertiaryFilter
    \/ ScheduleExclusion
    \/ Output

-----------------------------------------------------------------------------
(* The calls checked *)

AreaVals == {<<"a">>, <<"a", "b">>}
DateVals == {<<"1">>, <<"2">>}
StartVals == {<<"8">>, <<"9">>}
EndVals == {<<"8">>, <<"9">>}

SeqsUpTo(S, n) == UNION {[1..k -> S] : k \in 0..n}

Strs == {Str(v) : v \in AreaVals}
Lists == {List(l) : l \in SeqsUpTo(AreaVals, MaxLen) \ {<<>>}}

(* The state on entry to select_chair(df, ...), df = read_data(filename). *)
Entry(csv, g) ==
    /\ df = read_data(csv)
    /\ globals = g
    /\ f = IF "f" \in g THEN read_data(csv) ELSE EmptyFrame
    /\ pc = "bind"
    /\ df_selected = EmptyFrame
    /\ df_selected_new = EmptyFrame
    /\ df_selected_all = EmptyFrame
    /\ returned = EmptyFrame
    /\ raised = NoError

Namespaces == {{}, {"f"}}

(* Rosters that differ in the primary expertise; str and list area1. *)
InitPrimary ==
    /\ \E csv \in SeqsUpTo({Row(a, <<"a">>, <<"a">>, <<"1">>, <<"8">>, <<"9">>) :
                                a \in AreaVals}, MaxRows),
          g \in Namespaces : Entry(csv, g)
    /\ area1 \in Strs \cup Lists
    /\ area2 = None
    /\ area3 = None
    /\ date = <<"2">> /\ start_time = <<"8">> /\ end_time = <<"9">>
    /\ mode = "all"

(* Rosters that differ in the secondary and tertiary expertise. *)
InitStages ==
    /\ \E csv \in SeqsUpTo({Row(<<"a">>, a2, a3, <<"1">>, <<"8">>, <<"9">>) :
                                a2 \in AreaVals, a3 \in AreaVals}, MaxRows),
          g \in Namespaces : Entry(csv, g)
    /\ area1 = Str(<<"a">>)
    /\ area2 \in {None} \cup Strs \cup Lists
    /\ area3 \in {None} \cup Strs \cup Lists
    /\ date = <<"2">> /\ start_time = <<"8">> /\ end_time = <<"9">>
    /\ mode = "all"

(* Rosters that differ in the session window; both output modes. *)
InitSchedule ==
    /\ \E csv \in SeqsUpTo({Row(<<"a">>, <<"a">>, <<"a">>, d, s, e) :
                                d \in DateVals, s \in StartVals, e \in EndVals},
                           MaxRows),
          g \in Namespaces : Entry(csv, g)
    /\ area1 \in Strs
    /\ area2 = None
    /\ area3 = None
    /\ date \in DateVals /\ start_time \in StartVals /\ end_time \in EndVals
    /\ mode \in {"all", "random"}

Init == InitPrimary \/ InitStages \/ InitSchedule

Spec == Init /\ [][Next]_vars

-----------------------------------------------------------------------------
(* Properties.  A row of the roster is identified by its label; its field  *)
(* values are those of df.                                                 *)

OnDate(i) == df[i].session_date = date
SameStart(i) == df[i].session_start = start_time
SameEnd(i) == df[i].session_end = end_time

(* Whether a cell equals the query value, or any value of the query list. *)
Matches(cell, area) ==
    IF area.tag = "str" THEN cell = area.val
    ELSE \E k \in 1..Len(area.val) : cell = area.val[k]

(* The rows of frame whose labels are in S, cells unchanged. *)
Rows(frame, S) == [i \in S |-> frame[i]]

(* C1: the schedule-conflict step keeps a row that survived the expertise  *)
(* filters if and only if its session_date differs from the excluded date, *)
(* or it is on the excluded date and both its session_start and its        *)
(* session_end differ from the excluded start and end.                     *)
C1_ExclusionKeeps ==
    [][pc = "exclude" =>
         DOMAIN df_selected_all' =
             {i \in DOMAIN df_selected_all :
                 \/ ~OnDate(i)
                 \/ OnDate(i) /\ ~SameStart(i) /\ ~SameEnd(i)}]_vars

(* C1 witness: the exclusion has run; a row on the excluded date with a    *)
(* different start and end is kept and a row matching date, start and end  *)
(* is gone.                                                                *)
C1_Witness ==
    /\ pc = "output"
    /\ \E i \in DOMAIN df_selected_all : OnDate(i) /\ ~SameStart(i) /\ ~SameEnd(i)
    /\ \E j \in DOMAIN df_selected_new \ DOMAIN df_selected_all :
           OnDate(j) /\ SameStart(j) /\ SameEnd(j)

(* C2: the schedule-conflict step never excludes a row off the excluded    *)
(* date, and excludes a row on the excluded date if and only if both its   *)
(* start and its end equal the excluded ones (a row matching only one of   *)
(* the two is kept).                                                       *)
C2_ExcludesOnlyTheWindow ==
    [][pc = "exclude" =>
         \A i \in DOMAIN df_selected_all :
             (i \notin DOMAIN df_selected_all') <=>
                 (OnDate(i) /\ SameStart(i) /\ SameEnd(i))]_vars

C4_PrimaryUnion ==
    (pc = "secondary" /\ area1.tag = "list" /\ Len(area1.val) >= 2) =>
        df_selected =
            Rows(df, {i \in DOMAIN df : Matches(df[i].area_of_expertise_1, area1)})

(* C5: each expertise filter narrows the previous result: with secondary   *)
(* given, stage 2 is exactly the stage-1 rows whose area_of_expertise_2    *)
(* equals secondary or any value in it; with secondary omitted, stage 2 is *)
(* stage 1 unchanged; the same for tertiary relative to stage 2.           *)
C5_SequentialFilters ==
    /\ pc = "tertiary" =>
          IF area2.tag = "none" THEN df_selected_new = df_selected
          ELSE DOMAIN df_selected_new =
                   {i \in DOMAIN df_selected :
                       Matches(df[i].area_of_expertise_2, area2)}
    /\ pc = "exclude" =>
          IF area3.tag = "none" THEN df_selected_all = df_selected_new
          ELSE DOMAIN df_selected_all =
                   {i \in DOMAIN df_selected_new :
                       Matches(df[i].area_of_expertise_3, area3)}

(* C6: when the mode "all" result is non-empty, a mode "random" call       *)
(* returns exactly one row, that row is a member of the mode "all" result, *)
(* and every row of that result is a possible outcome.                     *)
C6_RandomIsMember ==
    /\ [][(pc = "output" /\ mode = "random" /\ DOMAIN df_selected_all # {}) =>
            /\ raised' = NoError
            /\ Cardinality(DOMAIN returned') = 1
            /\ \A i \in DOMAIN returned' :
                   /\ i \in DOMAIN df_selected_all
                   /\ returned'[i] = df_selected_all[i]]_vars
    /\ [](pc = "output" /\ mode = "random" =>
            \A i \in DOMAIN df_selected_all :
                ENABLED (Output /\ raised' = NoError /\ DOMAIN returned' = {i}))

(* C6 witness: a mode "random" call has returned a row although the        *)
(* exclusion left several rows and removed another.                        *)
C6_Witness ==
    /\ pc = "done"
    /\ mode = "random"
    /\ raised = NoError
    /\ Cardinality(DOMAIN returned) = 1
    /\ Cardinality(DOMAIN df_selected_all) >= 2
    /\ DOMAIN df_selected_all # DOMAIN df

C8_ResultRowsAreRosterRows ==
    (/\ pc = "done" /\ mode = "all" /\ raised = NoError
     /\ area1.tag = "str" /\ area2.tag = "none" /\ area3.tag = "none") =>
        \A i \in DOMAIN returned : i \in DOMAIN df /\ returned[i] = df[i]

(* C9: the schedule-conflict exclusion is idempotent: applied to its own   *)
(* result it yields the same rows.                                         *)
C9_ExclusionIdempotent ==
    pc = "output" => Exclusion(df_selected_all) = df_selected_all

(* C9 witness: the exclusion has run, has removed a row and has kept a     *)
(* row.                                                                    *)
C9_Witness ==
    /\ pc = "output"
    /\ DOMAIN df_selected_all # {}
    /\ DOMAIN df_selected_all # DOMAIN df_selected_new

(* C10: with a multi-value tertiary set, the tertiary filter keeps exactly *)
(* the stage-2 rows whose area_of_expertise_3 equals any value of the      *)
(* tertiary set, whatever secondary is (omitted, a str or a list).         *)
C10_TertiaryMulti ==
    (area3.tag = "list" /\ Len(area3.val) >= 2) =>
        /\ raised # SubscriptError
        /\ pc = "exclude" =>
              DOMAIN df_selected_all =
                  {i \in DOMAIN df_selected_new :
                      Matches(df[i].area_of_expertise_3, area3)}

====
